---- MODULE Spec2Model ----
(***************************************************************************)
(* The keystroke replay engine of poiesis-server (utils.ParseWritingSession)*)
(* and the submit handler that gates minting on its result                 *)
(* (api.handleFramesV2SubmitWritingSession).                               *)
(*                                                                         *)
(* A Go string is a sequence of bytes.  A byte is written as a TLA+ string *)
(* of one character ("a", " ", "\n"); a byte above 0x7F is written by its  *)
(* hexadecimal name ("xC3").                                               *)
(***************************************************************************)
EXTENDS Integers, Sequences, FiniteSets, TLC

\* A nil pointer, and a value not yet assigned.
Nil == [nil |-> TRUE]

(***************************************************************************)
(* Library functions of package strings, as ParseWritingSession uses them. *)
(***************************************************************************)

\* strings.Split(content, "\n"): the pieces between newline bytes; n newlines
\* give n+1 pieces, empty pieces included.
RECURSIVE SplitFrom(_, _, _)
SplitFrom(s, k, cur) ==
    IF k > Len(s) THEN <<cur>>
    ELSE IF s[k] = "\n" THEN <<cur>> \o SplitFrom(s, k + 1, <<>>)
    ELSE SplitFrom(s, k + 1, Append(cur, s[k]))

RECURSIVE SplitOnWhiteSpace(_)
SplitOnWhiteSpace(content) ==
    LET at == {k \in 1..Len(content) : content[k] \in {"\n", " ", "\t", "\r"}}
    IN  IF at = {} THEN <<content>>
        ELSE LET k == CHOOSE j \in at : \A m \in at : j <= m
             IN  <<SubSeq(content, 1, k - 1)>>
                 \o SplitOnWhiteSpace(SubSeq(content, k + 1, Len(content)))

Split(content) == SplitFrom(content, 1, <<>>)

\* unicode.IsSpace on the one-byte white space characters (the vertical tab,
\* which has no TLA+ escape, and the two-byte U+0085 and U+00A0 are not in
\* the model's alphabet).
IsSpace(c) == c \in {" ", "\t", "\n", "\r", "\f"}

RECURSIVE TrimLeft(_)
TrimLeft(s) == IF s # <<>> /\ IsSpace(Head(s)) THEN TrimLeft(Tail(s)) ELSE s

RECURSIVE TrimRight(_)
TrimRight(s) ==
    IF s # <<>> /\ IsSpace(s[Len(s)]) THEN TrimRight(SubSeq(s, 1, Len(s) - 1)) ELSE s

TrimLeftOnly(s) == TrimLeft(s)

\* strings.TrimSpace
TrimSpace(s) == TrimRight(TrimLeft(s))

\* strings.HasPrefix(s, " ")
HasSpacePrefix(s) == s # <<>> /\ Head(s) = " "

\* strings.Count(s, " ")
CountSpaces(s) == Cardinality({k \in 1..Len(s) : s[k] = " "})

\* strings.LastIndex(s, " "): the 0-based index of the last space, -1 if none.
FirstSpaceIndex(s) ==
    LET at == {k \in 1..Len(s) : s[k] = " "}
    IN  IF at = {} THEN -1 ELSE (CHOOSE k \in at : \A j \in at : k <= j) - 1

LastSpaceIndex(s) ==
    LET at == {k \in 1..Len(s) : s[k] = " "}
    IN  IF at = {} THEN -1 ELSE (CHOOSE k \in at : \A j \in at : j <= k) - 1

(***************************************************************************)
(* strconv.ParseFloat(delayStr, 64) followed by int(delayFloat * 1000).    *)
(* The decimal forms are modelled: an optional sign, digits, an optional   *)
(* point and digits, at least one digit in all; the transcripts of the     *)
(* model hold no exponent, hexadecimal, infinity or NaN form.  A parsed    *)
(* value is kept exactly as sign * mant / 10^scale; for the delays of the  *)
(* model (0.1, 0.2, 0.3, 0.5, -0.5, 1.25, 472) the float64 product with    *)
(* 1000 is the exact one, and for 0.0019 it truncates to the same integer. *)
(***************************************************************************)
Digits == <<"0", "1", "2", "3", "4", "5", "6", "7", "8", "9">>

IsDigit(c) == \E d \in 1..10 : Digits[d] = c

DigitVal(c) == (CHOOSE d \in 1..10 : Digits[d] = c) - 1

RECURSIVE Pow10(_)
Pow10(n) == IF n = 0 THEN 1 ELSE 10 * Pow10(n - 1)

\* The value of a sequence of digit bytes.
RECURSIVE DigitsVal(_)
DigitsVal(s) ==
    IF s = <<>> THEN 0 ELSE 10 * DigitsVal(SubSeq(s, 1, Len(s) - 1)) + DigitVal(s[Len(s)])

ParseFloatLenient(delayStr) == [err |-> FALSE, neg |-> FALSE, mant |-> 0, scale |-> 0]

ParseFloat(delayStr) ==
    LET signed == delayStr # <<>> /\ Head(delayStr) \in {"+", "-"}
        neg    == signed /\ Head(delayStr) = "-"
        body   == IF signed THEN Tail(delayStr) ELSE delayStr
        points == {k \in 1..Len(body) : body[k] = "."}
        p      == IF points = {} THEN Len(body) + 1 ELSE CHOOSE k \in points : TRUE
        int    == SubSeq(body, 1, p - 1)
        frac   == SubSeq(body, p + 1, Len(body))
        wellFormed ==
            /\ Cardinality(points) <= 1
            /\ \A k \in 1..Len(int) : IsDigit(int[k])
            /\ \A k \in 1..Len(frac) : IsDigit(frac[k])
            /\ Len(int) + Len(frac) > 0
    IN  IF wellFormed
        THEN [err |-> FALSE, neg |-> neg, mant |-> DigitsVal(int \o frac), scale |-> Len(frac)]
        ELSE [err |-> TRUE, neg |-> FALSE, mant |-> 0, scale |-> 0]

\* int(delayFloat * 1000): the conversion truncates toward zero.
MillisOfWholeSeconds(f) ==
    LET q == (f.mant \div Pow10(f.scale)) * 1000
    IN  IF f.neg THEN 0 - q ELSE q

MillisRounded(f) ==
    LET q == ((f.mant * 1000) + (Pow10(f.scale) \div 2)) \div Pow10(f.scale)
    IN  IF f.neg THEN 0 - q ELSE q

Millis(f) ==
    LET q == (f.mant * 1000) \div Pow10(f.scale)
    IN  IF f.neg THEN 0 - q ELSE q

\* Go's integer division a / b for b > 0: truncates toward zero.
TruncDiv(a, b) == IF a >= 0 THEN a \div b ELSE 0 - ((0 - a) \div b)

(***************************************************************************)
(* Program constants.                                                      *)
(***************************************************************************)
MinLines == 4

FirstKeyLine == 4

BaseDuration == 8

OverrideTimeSpent == 490

MintThreshold == 480

KeyBackspace == <<"B", "a", "c", "k", "s", "p", "a", "c", "e">>

KeyEnter == <<"E", "n", "t", "e", "r">>

KeySpace == <<" ">>

(***************************************************************************)
(* Transcripts the model parses: lines joined by newline bytes.            *)
(***************************************************************************)
LineA == <<"a", " ", "0", ".", "1">>

LineB == <<"b", " ", "0", ".", "2">>

LineBackspace == <<"B", "a", "c", "k", "s", "p", "a", "c", "e", " ", "0", ".", "1">>

LineEnter == <<"E", "n", "t", "e", "r", " ", "0", ".", "1">>

LineSpaceKey == <<" ", " ", "0", ".", "5">>

LineThreeSpaces == <<" ", " ", " ", "0", ".", "5">>

LineOneSpace == <<" ", "0", ".", "5">>

LineBadDelay == <<"x", " ", "n", "o", "t", "a", "n", "u", "m", "b", "e", "r">>

LineEmpty == <<>>

LineNoSpace == <<"x">>

LineSpaceA == <<" ", "a", " ", "0", ".", "5">>

LineNegative == <<"a", " ", "-", "0", ".", "5">>

LineMulti == <<"a", " ", "b", " ", "1", ".", "2", "5">>

LineAccent == <<"xC3", "xA9", " ", "0", ".", "1">>

LineLong == <<"z", " ", "4", "7", "2">>

LineFine == <<"c", " ", "0", ".", "0", "0", "1", "9">>

LineH == <<"H", " ", "0", ".", "3">>

LineI == <<"i", " ", "0", ".", "2">>

ExUser == <<"u", "s", "e", "r", "1", "2", "3">>

ExSession == <<"s", "e", "s", "s", "4", "5", "6">>

ExPrompt == <<"W", "r", "i", "t", "e", " ", "a", "b", "o", "u", "t", " ", "g", "r", "a", "t", "i", "t", "u", "d", "e">>

ExTimestamp == <<"2", "0", "2", "4", "-", "0", "1", "-", "0", "1", "T", "0", "0", ":", "0", "0", ":", "0", "0", "Z">>

PlainUser == <<"u", "1">>

PlainSession == <<"s", "1">>

PlainPrompt == <<"p">>

PlainTimestamp == <<"t">>

PaddedUser == <<" ", "u", "1", "\t">>

PaddedSession == <<"s", "1", "\r">>

PaddedTimestamp == <<"\t", "t", " ", "1", " ">>


\* The keystroke lines transcripts are built from.
KeyLines ==
    { LineA, LineB, LineBackspace, LineEnter, LineSpaceKey, LineThreeSpaces,
      LineOneSpace, LineBadDelay, LineEmpty, LineNoSpace, LineSpaceA,
      LineNegative, LineMulti, LineAccent, LineLong, LineFine }

PlainHeader == <<PlainUser, PlainSession, PlainPrompt, PlainTimestamp>>

\* White space around the fields and an empty prompt.
PaddedHeader == <<PaddedUser, PaddedSession, LineEmpty, PaddedTimestamp>>

\* A leading blank line: every field moves down by one line.
ShiftedHeader == <<LineEmpty, PlainUser, PlainSession, PlainPrompt>>

ExampleHeader == <<ExUser, ExSession, ExPrompt, ExTimestamp>>

\* The keystroke lines that longer transcripts are built from: the keys that
\* change the text, and the delays that decide the elapsed time.
CoreKeyLines ==
    { LineA, LineB, LineBackspace, LineEnter, LineSpaceKey, LineNegative,
      LineMulti, LineLong }

\* At most this many keystroke lines of KeyLines follow the plain header.
MaxKeyLines == 2

\* At most this many keystroke lines of CoreKeyLines follow the plain header.
MaxCoreKeyLines == 3

\* At most this many keystroke lines follow the other headers.
MaxVariantKeyLines == 1

\* At most this many lines in a transcript built from arbitrary lines.
MaxShortLines == 3

SeqsUpTo(S, n) == UNION {[1..m -> S] : m \in 0..n}

RECURSIVE Join(_)
Join(ls) ==
    IF Len(ls) = 0 THEN <<>>
    ELSE IF Len(ls) = 1 THEN ls[1]
    ELSE ls[1] \o <<"\n">> \o Join(Tail(ls))

\* The end-to-end example of the specification.
ExampleLines ==
    ExampleHeader \o <<LineH, LineI, LineEnter, LineBackspace>>

TranscriptLines ==
    {PlainHeader \o ks : ks \in SeqsUpTo(KeyLines, MaxKeyLines)}
    \cup {PlainHeader \o ks : ks \in SeqsUpTo(CoreKeyLines, MaxCoreKeyLines)}
    \cup {h \o ks : h \in {PaddedHeader, ShiftedHeader},
                    ks \in SeqsUpTo(KeyLines, MaxVariantKeyLines)}
    \cup (SeqsUpTo({LineEmpty, PlainUser, LineA}, MaxShortLines) \ {<<>>})
    \cup {ExampleLines}

Transcripts == {Join(ls) : ls \in TranscriptLines}

(***************************************************************************)
(* State.                                                                  *)
(***************************************************************************)
VARIABLES
    content,            \* the transcript posted to the handler
    pc,                 \* where the handler, and the parse it calls, stand
    lines,              \* ParseWritingSession: lines
    i,                  \* ParseWritingSession: the loop index (0-based)
    session,            \* ParseWritingSession: *session, Nil before it is built
    keyStrokes,         \* ParseWritingSession: keyStrokes
    constructedText,    \* ParseWritingSession: constructedText
    totalMilliseconds,  \* ParseWritingSession: totalMilliseconds
    ret,                \* what ParseWritingSession returned: [session, err]
    svcErr,             \* the error NewAnkyService returned
    minted,             \* the minting goroutine was started
    response,           \* what the handler answered
    cin,                \* concurrent invocations: the argument of each
    cpc,                \* concurrent invocations: where each stands
    cret,               \* concurrent invocations: what each returned
    frames,             \* concurrent invocations: the locals of each
    disk,               \* the server's files: directories and file contents
    before,             \* the files as they were when the last call began
    lastCall,           \* the last call the server made, and what it returned
    ncalls,             \* the calls made so far
    ws,                 \* SetAnkyStatus: the writing session *ws
    wsBefore,           \* SetAnkyStatus: the session as it was before the call
    wsCalled,           \* SetAnkyStatus: the call was made
    ain,                \* ProcessAnkyCreationFromWritingString: userID and the user's signer
    apc,                \* ProcessAnkyCreationFromWritingString: where it stands
    anky,               \* ProcessAnkyCreationFromWritingString: *anky
    issued,             \* the statuses handed to store.UpdateAnky, in order
    row,                \* the status the store holds for the Anky
    aret,               \* how ProcessAnkyCreationFromWritingString ended
    svc,                \* the status the image service holds for the image
    ppc,                \* pollImageStatus: where it stands
    pstatus,            \* pollImageStatus: status, err of the last check
    polls,              \* pollImageStatus: the checks made, up to MaxPolls
    pret,               \* pollImageStatus: what it returned
    ankyverseID,        \* TranslateToTheAnkyverse: sessionID, as byte values
    ti,                 \* TranslateToTheAnkyverse: the loop index
    encoded,            \* TranslateToTheAnkyverse: the characters written so far
    tret                \* TranslateToTheAnkyverse: how it ended

parseVars == <<lines, i, session, keyStrokes, constructedText, totalMilliseconds, ret>>

handlerVars == <<svcErr, minted, response>>

concVars == <<cin, cpc, cret, frames>>

serverVars == <<disk, before, lastCall, ncalls>>

statusVars == <<ws, wsBefore, wsCalled>>

ankyVars == <<ain, apc, anky, issued, row, aret>>

pollVars == <<svc, ppc, pstatus, polls, pret>>

translateVars == <<ankyverseID, ti, encoded, tret>>

serviceVars == <<serverVars, statusVars, ankyVars, pollVars, translateVars>>

coreVars == <<content, pc, lines, i, session, keyStrokes, constructedText,
              totalMilliseconds, ret, svcErr, minted, response, cin, cpc, cret, frames>>

vars == <<content, pc, lines, i, session, keyStrokes, constructedText,
          totalMilliseconds, ret, svcErr, minted, response, cin, cpc, cret, frames,
          disk, before, lastCall, ncalls, ws, wsBefore, wsCalled,
          ain, apc, anky, issued, row, aret, svc, ppc, pstatus, polls, pret,
          ankyverseID, ti, encoded, tret>>

\* No directory and no file yet.
EmptyDisk == [dirs |-> {}, files |-> <<>>, prompts |-> <<>>]

NoCall == [op |-> "none"]

\* The server has made no call.
ServerIdle ==
    /\ disk = EmptyDisk
    /\ before = EmptyDisk
    /\ lastCall = NoCall
    /\ ncalls = 0

\* A writing session of package types, the fields the model follows.
NoWritingSession ==
    [TimeSpent |-> <<>>, IsAnky |-> FALSE, Status |-> "", Writing |-> <<>>, WordsWritten |-> 0]

\* SetAnkyStatus is not under study.
StatusIdle ==
    /\ ws = NoWritingSession
    /\ wsBefore = NoWritingSession
    /\ wsCalled = FALSE

\* &types.Anky{}: the fields the model follows.
NoAnky == [Status |-> "", ImagePrompt |-> "", ImageURL |-> "", CastHash |-> ""]

\* ProcessAnkyCreationFromWritingString is not under study.
AnkyIdle ==
    /\ ain = [validUserID |-> FALSE, signer |-> FALSE]
    /\ apc = "idle"
    /\ anky = NoAnky
    /\ issued = <<>>
    /\ row = ""
    /\ aret = "none"

NoStatus == [status |-> "", err |-> "nil"]

\* pollImageStatus is not under study.
PollIdle ==
    /\ svc = "pending"
    /\ ppc = "idle"
    /\ pstatus = NoStatus
    /\ polls = 0
    /\ pret = NoStatus

\* TranslateToTheAnkyverse is not under study.
TranslateIdle ==
    /\ ankyverseID = <<>>
    /\ ti = 0
    /\ encoded = <<>>
    /\ tret = "idle"

ServiceIdle == ServerIdle /\ StatusIdle /\ AnkyIdle /\ PollIdle /\ TranslateIdle

\* The handler and the parse are not under study.
CoreIdle ==
    /\ content = <<>>
    /\ pc = "idle"
    /\ lines = <<>>
    /\ i = 0
    /\ session = Nil
    /\ keyStrokes = <<>>
    /\ constructedText = <<>>
    /\ totalMilliseconds = 0
    /\ ret = Nil
    /\ svcErr = FALSE
    /\ minted = FALSE
    /\ response = "none"
    /\ cin = <<>>
    /\ cpc = <<>>
    /\ cret = <<>>
    /\ frames = <<>>

Init ==
    /\ content \in Transcripts
    /\ pc = "parse"
    /\ lines = <<>>
    /\ i = 0
    /\ session = Nil
    /\ keyStrokes = <<>>
    /\ constructedText = <<>>
    /\ totalMilliseconds = 0
    /\ ret = Nil
    /\ svcErr = FALSE
    /\ minted = FALSE
    /\ response = "none"
    /\ cin = <<>>
    /\ cpc = <<>>
    /\ cret = <<>>
    /\ frames = <<>>
    /\ ServiceIdle

(***************************************************************************)
(* ParseWritingSession.                                                    *)
(***************************************************************************)

\* The condition of the space-keystroke branch.
IsSpaceKeystrokeAnySpaces(line) == HasSpacePrefix(line)

IsSpaceKeystrokeOneSpace(line) == HasSpacePrefix(line) /\ CountSpaces(line) = 1

IsSpaceKeystrokeNever(line) == FALSE

IsSpaceKeystroke(line) == HasSpacePrefix(line) /\ CountSpaces(line) = 2

\* line[:lastSpaceIndex] and line[lastSpaceIndex+1:]
BeforeLastSpace(line) == SubSeq(line, 1, LastSpaceIndex(line))

AfterLastSpace(line) == SubSeq(line, LastSpaceIndex(line) + 2, Len(line))

\* The line has no delimiter and is skipped.
NoDelimiter(line) == ~IsSpaceKeystroke(line) /\ LastSpaceIndex(line) = -1

KeyOf(line) ==
    IF IsSpaceKeystroke(line) THEN KeySpace ELSE TrimSpace(BeforeLastSpace(line))

DelayStrOf(line) ==
    IF IsSpaceKeystroke(line) THEN TrimSpace(line) ELSE TrimSpace(AfterLastSpace(line))

\* The switch on key: what the keystroke does to constructedText.
WriteKeyBackspaceKeepsOne(text, key) ==
    IF key = KeyBackspace THEN (IF Len(text) > 1 THEN SubSeq(text, 1, Len(text) - 1) ELSE text)
    ELSE IF key = KeyEnter THEN Append(text, "\n")
    ELSE IF key = KeySpace THEN Append(text, " ")
    ELSE text \o key

WriteKeyFirstByte(text, key) ==
    IF key = KeyBackspace THEN (IF Len(text) > 0 THEN SubSeq(text, 1, Len(text) - 1) ELSE text)
    ELSE IF key = KeyEnter THEN Append(text, "\n")
    ELSE IF key = KeySpace THEN Append(text, " ")
    ELSE IF key = <<>> THEN text ELSE text \o <<key[1]>>

WriteKey(text, key) ==
    IF key = KeyBackspace THEN (IF Len(text) > 0 THEN SubSeq(text, 1, Len(text) - 1) ELSE text)
    ELSE IF key = KeyEnter THEN Append(text, "\n")
    ELSE IF key = KeySpace THEN Append(text, " ")
    ELSE text \o key

\* keyStrokes = append(keyStrokes, keyStroke)
PrependKeyStroke(ks, keyStroke) == <<keyStroke>> \o ks

AddKeyStroke(ks, keyStroke) == Append(ks, keyStroke)

\* session.TimeSpent as the function leaves it: computed, then overwritten.
ComputedTimeSpent(total) == TruncDiv(total, 1000) + BaseDuration

FinalTimeSpent(total) ==
    LET computed   == ComputedTimeSpent(total)
        overridden == OverrideTimeSpent
    IN  overridden

\* The line the loop is at.
Line == lines[i + 1]

\* The loop condition, i < len(lines).
MoreStopsAtBlank == i < Len(lines) /\ lines[i + 1] # <<>>

More == i < Len(lines)

InLoop == pc = "loop" /\ More

\* Fewer than four lines: the error return, before any header field is read.
TooFewLines ==
    /\ pc = "parse"
    /\ Len(Split(content)) < MinLines
    /\ lines' = Split(content)
    /\ ret' = [session |-> Nil, err |-> TRUE]
    /\ pc' = "returned"
    /\ UNCHANGED <<content, i, session, keyStrokes, constructedText, totalMilliseconds>>
    /\ UNCHANGED handlerVars
    /\ UNCHANGED concVars
    /\ UNCHANGED serviceVars

\* The header fields, and the loop's initialisation.
ExtractHeader ==
    /\ pc = "parse"
    /\ Len(Split(content)) >= MinLines
    /\ lines' = Split(content)
    /\ session' = [UserID     |-> TrimSpace(lines'[1]),
                   SessionID  |-> TrimSpace(lines'[2]),
                   Prompt     |-> TrimSpace(lines'[3]),
                   Timestamp  |-> TrimSpace(lines'[4]),
                   KeyStrokes |-> <<>>,
                   RawContent |-> <<>>,
                   TimeSpent  |-> 0]
    /\ keyStrokes' = <<>>
    /\ constructedText' = <<>>
    /\ totalMilliseconds' = 0
    /\ i' = FirstKeyLine
    /\ pc' = "loop"
    /\ UNCHANGED <<content, ret>>
    /\ UNCHANGED handlerVars
    /\ UNCHANGED concVars
    /\ UNCHANGED serviceVars

\* line == "": continue
SkipEmptyLine ==
    /\ InLoop
    /\ Line = <<>>
    /\ i' = i + 1
    /\ UNCHANGED <<content, pc, lines, session, keyStrokes, constructedText,
                   totalMilliseconds, ret>>
    /\ UNCHANGED handlerVars
    /\ UNCHANGED concVars
    /\ UNCHANGED serviceVars

\* No space in the line: continue
SkipInvalidLine ==
    /\ InLoop
    /\ Line # <<>>
    /\ NoDelimiter(Line)
    /\ i' = i + 1
    /\ UNCHANGED <<content, pc, lines, session, keyStrokes, constructedText,
                   totalMilliseconds, ret>>
    /\ UNCHANGED handlerVars
    /\ UNCHANGED concVars
    /\ UNCHANGED serviceVars

\* The delay does not parse: continue
SkipInvalidDelay ==
    /\ InLoop
    /\ Line # <<>>
    /\ ~NoDelimiter(Line)
    /\ ParseFloat(DelayStrOf(Line)).err
    /\ i' = i + 1
    /\ UNCHANGED <<content, pc, lines, session, keyStrokes, constructedText,
                   totalMilliseconds, ret>>
    /\ UNCHANGED handlerVars
    /\ UNCHANGED concVars
    /\ UNCHANGED serviceVars

\* An accepted line: the delay is added, the keystroke appended and replayed.
AppendKeyStroke ==
    /\ InLoop
    /\ Line # <<>>
    /\ ~NoDelimiter(Line)
    /\ ~ParseFloat(DelayStrOf(Line)).err
    /\ LET key   == KeyOf(Line)
           delay == Millis(ParseFloat(DelayStrOf(Line)))
       IN  /\ totalMilliseconds' = totalMilliseconds + delay
           /\ keyStrokes' = AddKeyStroke(keyStrokes, [Key |-> key, Delay |-> delay])
           /\ constructedText' = WriteKey(constructedText, key)
    /\ i' = i + 1
    /\ UNCHANGED <<content, pc, lines, session, ret>>
    /\ UNCHANGED handlerVars
    /\ UNCHANGED concVars
    /\ UNCHANGED serviceVars

\* After the last line: the session is completed and returned.
FinishParse ==
    /\ pc = "loop"
    /\ ~More
    /\ session' = [session EXCEPT !.KeyStrokes = keyStrokes,
                                  !.RawContent = constructedText,
                                  !.TimeSpent  = FinalTimeSpent(totalMilliseconds)]
    /\ ret' = [session |-> session', err |-> FALSE]
    /\ pc' = "returned"
    /\ UNCHANGED <<content, lines, i, keyStrokes, constructedText, totalMilliseconds>>
    /\ UNCHANGED handlerVars
    /\ UNCHANGED concVars
    /\ UNCHANGED serviceVars

(***************************************************************************)
(* handleFramesV2SubmitWritingSession, from the return of the parse.       *)
(***************************************************************************)

\* The parse failed: the handler returns its error.
ParseFailed ==
    /\ pc = "returned"
    /\ ret.err
    /\ response' = "error parsing writing session"
    /\ pc' = "done"
    /\ UNCHANGED <<content, svcErr, minted>>
    /\ UNCHANGED parseVars
    /\ UNCHANGED concVars
    /\ UNCHANGED serviceVars

\* SaveWritingSessionLocally: it succeeds, or the handler returns its error.
SaveSession ==
    /\ pc = "returned"
    /\ ~ret.err
    /\ \E saved \in BOOLEAN :
          IF saved
          THEN pc' = "saved" /\ UNCHANGED response
          ELSE pc' = "done" /\ response' = "error saving writing session"
    /\ UNCHANGED <<content, svcErr, minted>>
    /\ UNCHANGED parseVars
    /\ UNCHANGED concVars
    /\ UNCHANGED serviceVars

\* NewAnkyService: its error is kept for later.
NewAnkyService ==
    /\ pc = "saved"
    /\ svcErr' \in BOOLEAN
    /\ pc' = "gate"
    /\ UNCHANGED <<content, minted, response>>
    /\ UNCHANGED parseVars
    /\ UNCHANGED concVars
    /\ UNCHANGED serviceVars

\* The gate: the minting goroutine starts when TimeSpent reaches the threshold.
MintAlways(timeSpent) == TRUE

Qualifies(timeSpent) == timeSpent >= MintThreshold

GateMinting ==
    /\ pc = "gate"
    /\ minted' = Qualifies(ret.session.TimeSpent)
    /\ pc' = "gated"
    /\ UNCHANGED <<content, svcErr, response>>
    /\ UNCHANGED parseVars
    /\ UNCHANGED concVars
    /\ UNCHANGED serviceVars

\* The service error is checked; then the next prompt is generated and stored.
Respond ==
    /\ pc = "gated"
    /\ IF svcErr
       THEN response' = "error creating anky service"
       ELSE response' \in {"error generating next prompt",
                           "error updating prompts file",
                           "success"}
    /\ pc' = "done"
    /\ UNCHANGED <<content, svcErr, minted>>
    /\ UNCHANGED parseVars
    /\ UNCHANGED concVars
    /\ UNCHANGED serviceVars

Next ==
    \/ TooFewLines
    \/ ExtractHeader
    \/ SkipEmptyLine
    \/ SkipInvalidLine
    \/ SkipInvalidDelay
    \/ AppendKeyStroke
    \/ FinishParse
    \/ ParseFailed
    \/ SaveSession
    \/ NewAnkyService
    \/ GateMinting
    \/ Respond

Spec == Init /\ [][Next]_vars

(***************************************************************************)
(* ParseWritingSession as a function of its argument: what one call,       *)
(* running alone, returns.                                                 *)
(***************************************************************************)

\* The line is skipped by one of the three continue statements.
Skips(line) == line = <<>> \/ NoDelimiter(line) \/ ParseFloat(DelayStrOf(line)).err

\* The loop from line k (0-based) on.
RECURSIVE ParseLoop(_, _, _, _, _)
ParseLoop(ls, k, ks, text, total) ==
    IF ~(k < Len(ls)) THEN [KeyStrokes |-> ks, RawContent |-> text, Total |-> total]
    ELSE IF Skips(ls[k + 1]) THEN ParseLoop(ls, k + 1, ks, text, total)
    ELSE LET key   == KeyOf(ls[k + 1])
             delay == Millis(ParseFloat(DelayStrOf(ls[k + 1])))
         IN  ParseLoop(ls, k + 1, AddKeyStroke(ks, [Key |-> key, Delay |-> delay]),
                       WriteKey(text, key), total + delay)

ParseSession(transcript) ==
    LET ls == Split(transcript)
    IN  IF Len(ls) < MinLines THEN [session |-> Nil, err |-> TRUE]
        ELSE LET r == ParseLoop(ls, FirstKeyLine, <<>>, <<>>, 0)
             IN  [session |-> [UserID     |-> TrimSpace(ls[1]),
                               SessionID  |-> TrimSpace(ls[2]),
                               Prompt     |-> TrimSpace(ls[3]),
                               Timestamp  |-> TrimSpace(ls[4]),
                               KeyStrokes |-> r.KeyStrokes,
                               RawContent |-> r.RawContent,
                               TimeSpent  |-> FinalTimeSpent(r.Total)],
                  err |-> FALSE]

(***************************************************************************)
(* Concurrent invocations of ParseWritingSession: each runs the steps of   *)
(* the function on its own locals, in any interleaving.                    *)
(***************************************************************************)

\* The number of concurrent invocations.
NumInvocations == 2

\* At most this many keystroke lines in the transcript of an invocation.
MaxConcKeyLines == 1

Invocations == 1..NumInvocations

ConcKeyLines == {LineA, LineBackspace, LineBadDelay}

ConcTranscripts ==
    {Join(PlainHeader \o ks) : ks \in SeqsUpTo(ConcKeyLines, MaxConcKeyLines)}
    \cup {Join(<<PlainUser, PlainSession>>)}

\* Where the locals of invocation p live: every call has its own frame.
SlotShared(p) == 1

Slot(p) == p

Frame(p) == frames[Slot(p)]

\* var constructedText strings.Builder: a call starts with an empty builder.
InitialTextKept(p) == frames[1].constructedText

InitialText(p) == <<>>

EmptyFrame ==
    [lines |-> <<>>, i |-> 0, session |-> Nil, keyStrokes |-> <<>>,
     constructedText |-> <<>>, totalMilliseconds |-> 0]

InitConc ==
    /\ content = <<>>
    /\ pc = "idle"
    /\ lines = <<>>
    /\ i = 0
    /\ session = Nil
    /\ keyStrokes = <<>>
    /\ constructedText = <<>>
    /\ totalMilliseconds = 0
    /\ ret = Nil
    /\ svcErr = FALSE
    /\ minted = FALSE
    /\ response = "none"
    /\ cin \in [Invocations -> ConcTranscripts]
    /\ cpc = [p \in Invocations |-> "parse"]
    /\ cret = [p \in Invocations |-> Nil]
    /\ frames = [p \in Invocations |-> EmptyFrame]
    /\ ServiceIdle

seqVars == <<content, pc, lines, i, session, keyStrokes, constructedText,
             totalMilliseconds, ret, svcErr, minted, response, serviceVars>>

CTooFewLines(p) ==
    /\ cpc[p] = "parse"
    /\ Len(Split(cin[p])) < MinLines
    /\ frames' = [frames EXCEPT ![Slot(p)].lines = Split(cin[p])]
    /\ cret' = [cret EXCEPT ![p] = [session |-> Nil, err |-> TRUE]]
    /\ cpc' = [cpc EXCEPT ![p] = "returned"]
    /\ UNCHANGED <<cin, seqVars>>

CExtractHeader(p) ==
    /\ cpc[p] = "parse"
    /\ Len(Split(cin[p])) >= MinLines
    /\ LET ls == Split(cin[p])
       IN  frames' = [frames EXCEPT ![Slot(p)] =
                        [lines |-> ls,
                         i |-> FirstKeyLine,
                         session |-> [UserID     |-> TrimSpace(ls[1]),
                                      SessionID  |-> TrimSpace(ls[2]),
                                      Prompt     |-> TrimSpace(ls[3]),
                                      Timestamp  |-> TrimSpace(ls[4]),
                                      KeyStrokes |-> <<>>,
                                      RawContent |-> <<>>,
                                      TimeSpent  |-> 0],
                         keyStrokes |-> <<>>,
                         constructedText |-> InitialText(p),
                         totalMilliseconds |-> 0]]
    /\ cpc' = [cpc EXCEPT ![p] = "loop"]
    /\ UNCHANGED <<cin, cret, seqVars>>

CSkipLine(p) ==
    /\ cpc[p] = "loop"
    /\ Frame(p).i < Len(Frame(p).lines)
    /\ Skips(Frame(p).lines[Frame(p).i + 1])
    /\ frames' = [frames EXCEPT ![Slot(p)].i = @ + 1]
    /\ UNCHANGED <<cin, cpc, cret, seqVars>>

CAppendKeyStroke(p) ==
    /\ cpc[p] = "loop"
    /\ Frame(p).i < Len(Frame(p).lines)
    /\ ~Skips(Frame(p).lines[Frame(p).i + 1])
    /\ LET f     == Frame(p)
           line  == f.lines[f.i + 1]
           key   == KeyOf(line)
           delay == Millis(ParseFloat(DelayStrOf(line)))
       IN  frames' = [frames EXCEPT ![Slot(p)] =
                        [f EXCEPT !.totalMilliseconds = @ + delay,
                                  !.keyStrokes = AddKeyStroke(@, [Key |-> key, Delay |-> delay]),
                                  !.constructedText = WriteKey(@, key),
                                  !.i = @ + 1]]
    /\ UNCHANGED <<cin, cpc, cret, seqVars>>

CFinishParse(p) ==
    /\ cpc[p] = "loop"
    /\ ~(Frame(p).i < Len(Frame(p).lines))
    /\ LET f == Frame(p)
           s == [f.session EXCEPT !.KeyStrokes = f.keyStrokes,
                                  !.RawContent = f.constructedText,
                                  !.TimeSpent  = FinalTimeSpent(f.totalMilliseconds)]
       IN  /\ frames' = [frames EXCEPT ![Slot(p)].session = s]
           /\ cret' = [cret EXCEPT ![p] = [session |-> s, err |-> FALSE]]
    /\ cpc' = [cpc EXCEPT ![p] = "returned"]
    /\ UNCHANGED <<cin, seqVars>>

NextConc ==
    \E p \in Invocations :
        \/ CTooFewLines(p)
        \/ CExtractHeader(p)
        \/ CSkipLine(p)
        \/ CAppendKeyStroke(p)
        \/ CFinishParse(p)

SpecConc == InitConc /\ [][NextConc]_vars

(***************************************************************************)
(* The files of the server, and SaveWritingSessionLocally.  A disk holds   *)
(* the directories made, the contents of the files by path, and the        *)
(* prompt stored for each FID in data/framesgiving/upcoming-prompts.txt.   *)
(***************************************************************************)

DataDir == <<"d", "a", "t", "a", "/", "f", "r", "a", "m", "e", "s", "g", "i", "v", "i", "n", "g", "/">>

TxtSuffix == <<".", "t", "x", "t">>

IndexSuffix == <<"_", "w", "r", "i", "t", "i", "n", "g", "_", "s", "e", "s", "s", "i", "o", "n", "s", ".", "t", "x", "t">>

\* fmt.Sprintf("data/framesgiving/%s", session.UserID)
UserDir(userID) == DataDir \o userID

\* fmt.Sprintf("%s/%s.txt", userDir, session.SessionID)
SessionPath(userDir, sessionID) == userDir \o <<"/">> \o sessionID \o TxtSuffix

\* fmt.Sprintf("%s/%s_writing_sessions.txt", userDir, session.UserID)
SessionsPath(userDir, userID) == userDir \o <<"/">> \o userID \o IndexSuffix

\* fmt.Sprintf("%s\n", session.SessionID)
SessionLine(sessionID) == sessionID \o <<"\n">>

Exists(d, path) == path \in DOMAIN d.files

\* The file at path holds data, whether it was there or not.
PutFile(d, path, data) ==
    [d EXCEPT !.files = [q \in (DOMAIN d.files) \cup {path} |->
                            IF q = path THEN data ELSE d.files[q]]]

\* os.MkdirAll
MkdirAll(d, dir) == [d EXCEPT !.dirs = @ \cup {dir}]

\* os.WriteFile: the file is created or truncated, then written.
Truncate(d, path) == PutFile(d, path, <<>>)

WriteFile(d, path, data) == PutFile(Truncate(d, path), path, data)

\* os.OpenFile with O_APPEND|O_CREATE|O_WRONLY: the file is created if missing.
OpenFile(d, path) == IF Exists(d, path) THEN d ELSE PutFile(d, path, <<>>)

\* f.WriteString on a file opened for appending.
WriteString(d, path, data) == PutFile(d, path, d.files[path] \o data)

\* The step of SaveWritingSessionLocally the system fails, if any: MkdirAll,
\* WriteFile before it touched the file ("create") or after it truncated it
\* ("write"), OpenFile, or WriteString before it wrote anything.
Faults == {"none", "mkdir", "create", "write", "open", "append"}

\* len(lines) < 4 in SaveWritingSessionLocally
SaveMinLines == 4

\* The early return for a transcript that is too short.
SaveRejectsAfterMkdir(d) == [disk |-> MkdirAll(d, DataDir), err |-> TRUE]

SaveRejects(d) == [disk |-> d, err |-> TRUE]

SaveWritingSessionLocally(d, c, fault) ==
    LET ls == Split(c)
    IN  IF Len(ls) < SaveMinLines THEN SaveRejects(d)
        ELSE LET userID       == TrimSpace(ls[1])
                 sessionID    == TrimSpace(ls[2])
                 userDir      == UserDir(userID)
                 sessionPath  == SessionPath(userDir, sessionID)
                 sessionsPath == SessionsPath(userDir, userID)
                 made         == MkdirAll(d, userDir)
                 written      == WriteFile(made, sessionPath, c)
                 opened       == OpenFile(written, sessionsPath)
                 appended     == WriteString(opened, sessionsPath, SessionLine(sessionID))
             IN  CASE fault = "mkdir"  -> [disk |-> d, err |-> TRUE]
                   [] fault = "create" -> [disk |-> made, err |-> TRUE]
                   [] fault = "write"  -> [disk |-> Truncate(made, sessionPath), err |-> TRUE]
                   [] fault = "open"   -> [disk |-> written, err |-> TRUE]
                   [] fault = "append" -> [disk |-> opened, err |-> TRUE]
                   [] OTHER            -> [disk |-> appended, err |-> FALSE]

(***************************************************************************)
(* The handlers that call the parse and the save, each as one step of the  *)
(* server: the request and what the system answers are the inputs.         *)
(***************************************************************************)

\* The prompt the language model returns.
NextPrompt == <<"q">>

\* updatePromptsFile: the line of the FID is replaced, or added.
UpdatePrompts(d, fid, prompt) ==
    [d EXCEPT !.prompts = [f \in (DOMAIN d.prompts) \cup {fid} |->
                              IF f = fid THEN prompt ELSE d.prompts[f]]]

\* What the calls after the gate of handleFramesV2SubmitWritingSession do:
\* the prompt is generated, then stored.
PromptOutcomes == {"generate fails", "update fails", "stored"}

\* What a call of the server did.
Outcome(op, c) ==
    [op |-> op, content |-> c, err |-> FALSE, response |-> "none",
     saveCalled |-> FALSE, svcCalled |-> FALSE, svcErr |-> FALSE,
     minted |-> FALSE, prompted |-> FALSE, creation |-> FALSE]

\* handleFramesV2SubmitWritingSession
SubmitWritingSession(d, c, fault, svcFails, prompt) ==
    LET parsed == ParseSession(c)
        saved  == SaveWritingSessionLocally(d, c, fault)
        mint   == Qualifies(parsed.session.TimeSpent)
        fid    == parsed.session.UserID
        o      == Outcome("submit", c)
    IN  IF parsed.err
        THEN [disk |-> d,
              call |-> [o EXCEPT !.err = TRUE,
                                 !.response = "error parsing writing session"]]
        ELSE IF saved.err
        THEN [disk |-> saved.disk,
              call |-> [o EXCEPT !.err = TRUE, !.saveCalled = TRUE,
                                 !.response = "error saving writing session"]]
        ELSE IF svcFails
        THEN [disk |-> saved.disk,
              call |-> [o EXCEPT !.err = TRUE, !.saveCalled = TRUE,
                                 !.svcCalled = TRUE, !.svcErr = TRUE,
                                 !.minted = mint,
                                 !.response = "error creating anky service"]]
        ELSE IF prompt = "generate fails"
        THEN [disk |-> saved.disk,
              call |-> [o EXCEPT !.err = TRUE, !.saveCalled = TRUE,
                                 !.svcCalled = TRUE, !.minted = mint,
                                 !.response = "error generating next prompt"]]
        ELSE IF prompt = "update fails"
        THEN [disk |-> saved.disk,
              call |-> [o EXCEPT !.err = TRUE, !.saveCalled = TRUE,
                                 !.svcCalled = TRUE, !.minted = mint,
                                 !.prompted = TRUE,
                                 !.response = "error updating prompts file"]]
        ELSE [disk |-> UpdatePrompts(saved.disk, fid, NextPrompt),
              call |-> [o EXCEPT !.saveCalled = TRUE, !.svcCalled = TRUE,
                                 !.minted = mint, !.prompted = TRUE,
                                 !.response = "success"]]

\* handleProcessWritingConversation: var totalTime = 8000
ConversationBase == 8000

\* handleProcessWritingConversation: totalTime > 480000
ConversationThreshold == 480000

\* totalTime after the loop over the keystrokes.
RECURSIVE TotalTime(_)
TotalTime(ks) ==
    IF ks = <<>> THEN ConversationBase
    ELSE TotalTime(SubSeq(ks, 1, Len(ks) - 1)) + ks[Len(ks)].Delay

LongSession(totalTime) == totalTime > ConversationThreshold

\* handleProcessWritingConversation, up to the goroutine that creates the
\* Anky of the last message.
ProcessWritingConversation(lastMsg) ==
    LET writingSession == ParseSession(lastMsg)
        o              == Outcome("conversation", lastMsg)
    IN  IF writingSession.err THEN o
        ELSE [o EXCEPT !.creation = LongSession(TotalTime(writingSession.session.KeyStrokes))]

\* *int: no element for nil, one element for a pointer to a value.
NilInt == <<>>

PtrTo(n) == <<n>>

\* WritingSession.IsValidAnky: 480
ValidAnkyThreshold == 480

IsValidAnkyIgnoresNil(timeSpent) == timeSpent = NilInt \/ timeSpent[1] >= ValidAnkyThreshold

IsValidAnky(timeSpent) == timeSpent # NilInt /\ timeSpent[1] >= ValidAnkyThreshold

\* The transcripts the server is sent.
ServerUsers == {PlainUser, <<"u", "2">>}

ServerSessions == {PlainSession, <<"s", "2">>}

\* At most this many calls of the server.
MaxCalls == 2

ServerTranscripts ==
    {Join(<<u, PlainSession, PlainPrompt, PlainTimestamp, LineA>>) : u \in ServerUsers}
    \cup {Join(<<PlainUser, s, PlainPrompt, PlainTimestamp, LineA>>) : s \in ServerSessions}
    \cup {Join(PlainHeader \o <<LineB>>),
          Join(PlainHeader \o <<LineLong>>),
          Join(PaddedHeader \o <<LineA>>),
          Join(<<PlainUser, PlainSession, PlainPrompt>>),
          <<>>}

InitServer ==
    /\ content = <<>>
    /\ pc = "idle"
    /\ lines = <<>>
    /\ i = 0
    /\ session = Nil
    /\ keyStrokes = <<>>
    /\ constructedText = <<>>
    /\ totalMilliseconds = 0
    /\ ret = Nil
    /\ svcErr = FALSE
    /\ minted = FALSE
    /\ response = "none"
    /\ cin = <<>>
    /\ cpc = <<>>
    /\ cret = <<>>
    /\ frames = <<>>
    /\ ServiceIdle

notServerVars == <<coreVars, statusVars, ankyVars, pollVars, translateVars>>

\* What the system answers to the calls of one request, up to the first
\* call that fails.
SubmitAnswers ==
    {[fault |-> f, svcFails |-> FALSE, prompt |-> "stored"] : f \in Faults}
    \cup {[fault |-> "none", svcFails |-> TRUE, prompt |-> "stored"]}
    \cup {[fault |-> "none", svcFails |-> FALSE, prompt |-> p] : p \in PromptOutcomes}

\* A call of SaveWritingSessionLocally.
SaveCall ==
    /\ ncalls < MaxCalls
    /\ \E c \in ServerTranscripts, fault \in Faults :
          LET r == SaveWritingSessionLocally(disk, c, fault)
          IN  /\ disk' = r.disk
              /\ lastCall' = [Outcome("save", c) EXCEPT !.err = r.err]
    /\ before' = disk
    /\ ncalls' = ncalls + 1
    /\ UNCHANGED notServerVars

\* A request to handleFramesV2SubmitWritingSession.
SubmitCall ==
    /\ ncalls < MaxCalls
    /\ \E c \in ServerTranscripts, a \in SubmitAnswers :
          LET r == SubmitWritingSession(disk, c, a.fault, a.svcFails, a.prompt)
          IN  /\ disk' = r.disk
              /\ lastCall' = r.call
    /\ before' = disk
    /\ ncalls' = ncalls + 1
    /\ UNCHANGED notServerVars

\* A request to handleProcessWritingConversation.
ConversationCall ==
    /\ ncalls < MaxCalls
    /\ \E c \in ServerTranscripts :
          lastCall' = ProcessWritingConversation(c)
    /\ before' = disk
    /\ ncalls' = ncalls + 1
    /\ UNCHANGED disk
    /\ UNCHANGED notServerVars

NextServer ==
    \/ SaveCall
    \/ SubmitCall
    \/ ConversationCall

SpecServer == InitServer /\ [][NextServer]_vars

(***************************************************************************)
(* WritingSession.SetAnkyStatus of package types.                          *)
(***************************************************************************)

\* TimeSpent takes the values within this distance of the threshold.
MaxTimeSpentDistance == 2

TimeSpentValues ==
    {NilInt, PtrTo(0), PtrTo(-1)}
    \cup {PtrTo(n) : n \in (ValidAnkyThreshold - MaxTimeSpentDistance)..
                            (ValidAnkyThreshold + MaxTimeSpentDistance)}

WritingSessions ==
    [TimeSpent    : TimeSpentValues,
     IsAnky       : BOOLEAN,
     Status       : {"", "pending_processing", "completed", "processing"},
     Writing      : {<<>>, <<"w">>},
     WordsWritten : {0, 1}]

SetAnkyStatus(w) ==
    LET isAnky == IsValidAnky(w.TimeSpent)
    IN  [w EXCEPT !.IsAnky = isAnky,
                  !.Status = IF isAnky THEN "pending_processing" ELSE "completed"]

InitStatus ==
    /\ CoreIdle
    /\ ServerIdle
    /\ AnkyIdle
    /\ PollIdle
    /\ TranslateIdle
    /\ ws \in WritingSessions
    /\ wsBefore = NoWritingSession
    /\ wsCalled = FALSE

notStatusVars == <<coreVars, serverVars, ankyVars, pollVars, translateVars>>

\* ws.SetAnkyStatus()
CallSetAnkyStatus ==
    /\ ~wsCalled
    /\ ws' = SetAnkyStatus(ws)
    /\ wsBefore' = ws
    /\ wsCalled' = TRUE
    /\ UNCHANGED notStatusVars

NextStatus == CallSetAnkyStatus

SpecStatus == InitStatus /\ [][NextStatus]_vars

(***************************************************************************)
(* AnkyService.ProcessAnkyCreationFromWritingString: the calls in their    *)
(* order, each with the answers it can get.  The result of                 *)
(* store.UpdateAnky is dropped by the function, so an update that fails    *)
(* leaves the stored status as it was and the function goes on.            *)
(***************************************************************************)

\* s.store.UpdateAnky(ctx, anky): the status is handed to the store, which
\* keeps it when the update succeeds.
UpdateAnky(a, stored) == IF stored THEN a.Status ELSE row

InitAnky ==
    /\ CoreIdle
    /\ ServerIdle
    /\ StatusIdle
    /\ PollIdle
    /\ TranslateIdle
    /\ ain \in [validUserID : BOOLEAN, signer : BOOLEAN]
    /\ apc = "start"
    /\ anky = NoAnky
    /\ issued = <<>>
    /\ row = ""
    /\ aret = "none"

notAnkyVars == <<coreVars, serverVars, statusVars, pollVars, translateVars>>

\* The function returns err.
ReturnErr(err) ==
    /\ aret' = err
    /\ apc' = "done"
    /\ UNCHANGED <<ain, anky, issued, row>>

\* anky.Status = status; s.store.UpdateAnky(ctx, anky); then on to the next call.
StoreStatus(status, next) ==
    \E stored \in BOOLEAN :
        /\ anky' = [anky EXCEPT !.Status = status]
        /\ issued' = Append(issued, status)
        /\ row' = UpdateAnky(anky', stored)
        /\ apc' = next
        /\ UNCHANGED <<ain, aret>>

\* The Anky is created with its first status.
StartProcessing ==
    /\ apc = "start"
    /\ StoreStatus("starting_processing", "reflect")
    /\ UNCHANGED notAnkyVars

\* NewPinataService, UploadTXTFile, GenerateAnkyReflectionFromRawString.
GenerateReflection ==
    /\ apc = "reflect"
    /\ \/ \E err \in {"pinata service", "upload writing", "reflection"} : ReturnErr(err)
       \/ StoreStatus("reflection_completed", "reflected")
    /\ UNCHANGED notAnkyVars

\* The reflection is copied into the Anky.
StoreReflection ==
    /\ apc = "reflected"
    /\ \E stored \in BOOLEAN :
          /\ anky' = [anky EXCEPT !.ImagePrompt = "prompt",
                                  !.Status = "going_to_generate_image"]
          /\ issued' = Append(issued, "going_to_generate_image")
          /\ row' = UpdateAnky(anky', stored)
    /\ apc' = "generate"
    /\ UNCHANGED <<ain, aret>>
    /\ UNCHANGED notAnkyVars

\* generateImageWithMidjourney
GenerateImage ==
    /\ apc = "generate"
    /\ \/ ReturnErr("generate image")
       \/ StoreStatus("generating_image", "poll")
    /\ UNCHANGED notAnkyVars

\* pollImageStatus, when it returns.
PollImage ==
    /\ apc = "poll"
    /\ \/ ReturnErr("poll image")
       \/ StoreStatus("image_generated", "fetch")
    /\ UNCHANGED notAnkyVars

\* fetchImageDetails, and the check that an upscaled image is there.
FetchImage ==
    /\ apc = "fetch"
    /\ \/ \E err \in {"fetch image", "no upscaled images"} : ReturnErr(err)
       \/ StoreStatus("uploading_image", "upload")
    /\ UNCHANGED notAnkyVars

\* NewImageService, uploadImageToCloudinary, UploadImageFromURL.
UploadImage ==
    /\ apc = "upload"
    /\ \/ \E err \in {"image service", "upload image", "pin image"} : ReturnErr(err)
       \/ \E stored \in BOOLEAN :
             /\ anky' = [anky EXCEPT !.ImageURL = "url", !.Status = "image_uploaded"]
             /\ issued' = Append(issued, "image_uploaded")
             /\ row' = UpdateAnky(anky', stored)
             /\ apc' = "uploaded"
             /\ UNCHANGED <<ain, aret>>
    /\ UNCHANGED notAnkyVars

\* 5. Mark as complete
StartCasting ==
    /\ apc = "uploaded"
    /\ StoreStatus("casting_to_farcaster", "user")
    /\ UNCHANGED notAnkyVars

\* s.store.GetUserByID(ctx, uuid.MustParse(userID)): MustParse panics on a
\* userID that is not a UUID.
GetUser ==
    /\ apc = "user"
    /\ IF ~ain.validUserID
       THEN /\ aret' = "panic"
            /\ apc' = "done"
            /\ UNCHANGED <<ain, anky, issued, row>>
       ELSE \/ ReturnErr("get user")
            \/ /\ apc' = "cast"
               /\ UNCHANGED <<ain, anky, issued, row, aret>>
    /\ UNCHANGED notAnkyVars

\* The Anky is published when the user has a signer; the last status is stored.
CastAnky ==
    /\ apc = "cast"
    /\ IF ain.signer
       THEN \/ ReturnErr("publish")
            \/ \E stored \in BOOLEAN :
                  /\ anky' = [anky EXCEPT !.CastHash = "hash", !.Status = "completed"]
                  /\ issued' = Append(issued, "completed")
                  /\ row' = UpdateAnky(anky', stored)
                  /\ aret' = "nil"
                  /\ apc' = "done"
                  /\ UNCHANGED ain
       ELSE \E stored \in BOOLEAN :
                  /\ anky' = [anky EXCEPT !.Status = "pending_to_cast"]
                  /\ issued' = Append(issued, "pending_to_cast")
                  /\ row' = UpdateAnky(anky', stored)
                  /\ aret' = "nil"
                  /\ apc' = "done"
                  /\ UNCHANGED ain
    /\ UNCHANGED notAnkyVars

NextAnky ==
    \/ StartProcessing
    \/ GenerateReflection
    \/ StoreReflection
    \/ GenerateImage
    \/ PollImage
    \/ FetchImage
    \/ UploadImage
    \/ StartCasting
    \/ GetUser
    \/ CastAnky

SpecAnky == InitAnky /\ [][NextAnky]_vars

(***************************************************************************)
(* pollImageStatus, and the image service it asks.                         *)
(***************************************************************************)

\* The statuses the image service goes through before it ends.
WorkingStatuses == <<"pending", "in-progress">>

EndStatuses == {"completed", "failed"}

\* The checks are counted up to this number.
MaxPolls == 6

\* The status the loop returns on without an error.
IsCompletedOrWorking(status) == status # "failed"

IsCompleted(status) == status = "completed"

IsFailed(status) == status = "failed"

InitPoll ==
    /\ CoreIdle
    /\ ServerIdle
    /\ StatusIdle
    /\ AnkyIdle
    /\ TranslateIdle
    /\ svc \in {WorkingStatuses[k] : k \in 1..Len(WorkingStatuses)} \cup EndStatuses
    /\ ppc = "check"
    /\ pstatus = NoStatus
    /\ polls = 0
    /\ pret = NoStatus

notPollVars == <<coreVars, serverVars, statusVars, ankyVars, translateVars>>

\* The image service moves on: to its next working status, or to an end.
ServiceAdvances ==
    /\ svc \notin EndStatuses
    /\ \/ \E k \in 1..(Len(WorkingStatuses) - 1) :
             svc = WorkingStatuses[k] /\ svc' = WorkingStatuses[k + 1]
       \/ svc' \in EndStatuses
    /\ UNCHANGED <<ppc, pstatus, polls, pret>>
    /\ UNCHANGED notPollVars

\* status, err := checkImageStatus(id): the request fails, or the service
\* answers with the status it holds.
CheckImageStatus ==
    /\ ppc = "check"
    /\ \/ pstatus' = [status |-> "", err |-> "check failed"]
       \/ pstatus' = [status |-> svc, err |-> "nil"]
    /\ ppc' = "decide"
    /\ polls' = IF polls < MaxPolls THEN polls + 1 ELSE polls
    /\ UNCHANGED <<svc, pret>>
    /\ UNCHANGED notPollVars

\* if err != nil { return "", err }
ReturnCheckError ==
    /\ ppc = "decide"
    /\ pstatus.err # "nil"
    /\ pret' = pstatus
    /\ ppc' = "done"
    /\ UNCHANGED <<svc, pstatus, polls>>
    /\ UNCHANGED notPollVars

\* if status == "completed" { return status, nil }
ReturnCompleted ==
    /\ ppc = "decide"
    /\ pstatus.err = "nil"
    /\ IsCompleted(pstatus.status)
    /\ pret' = [status |-> pstatus.status, err |-> "nil"]
    /\ ppc' = "done"
    /\ UNCHANGED <<svc, pstatus, polls>>
    /\ UNCHANGED notPollVars

\* if status == "failed" { return status, fmt.Errorf("image generation failed") }
ReturnFailed ==
    /\ ppc = "decide"
    /\ pstatus.err = "nil"
    /\ ~IsCompleted(pstatus.status)
    /\ IsFailed(pstatus.status)
    /\ pret' = [status |-> pstatus.status, err |-> "image generation failed"]
    /\ ppc' = "done"
    /\ UNCHANGED <<svc, pstatus, polls>>
    /\ UNCHANGED notPollVars

\* time.Sleep(5 * time.Second), and the loop goes round.
SleepAndRetry ==
    /\ ppc = "decide"
    /\ pstatus.err = "nil"
    /\ ~IsCompleted(pstatus.status)
    /\ ~IsFailed(pstatus.status)
    /\ ppc' = "check"
    /\ UNCHANGED <<svc, pstatus, polls, pret>>
    /\ UNCHANGED notPollVars

\* The steps of pollImageStatus.
PollStep ==
    \/ CheckImageStatus
    \/ ReturnCheckError
    \/ ReturnCompleted
    \/ ReturnFailed
    \/ SleepAndRetry

NextPoll ==
    \/ ServiceAdvances
    \/ PollStep

\* The goroutine that runs pollImageStatus is scheduled again and again, and
\* a check it started returns.
SpecPoll == InitPoll /\ [][NextPoll]_vars /\ WF_vars(PollStep)

(***************************************************************************)
(* TranslateToTheAnkyverse: one step for each byte of the session ID.      *)
(***************************************************************************)

\* characters, as code points.
characters ==
    <<3205, 3206, 3207, 3208, 3209, 3210, 3211, 3212, 3214, 3215,
      3216, 3218, 3219, 3220, 3221, 3222, 3223, 3224, 3225, 3226,
      3227, 3228, 3229, 3230, 3231, 3232, 3233, 3234, 3235, 3236,
      3237, 3238, 3239, 3240, 3242, 3243, 3244, 3245, 3246, 3247,
      3248, 3249, 3250, 3251, 3253, 3254, 3255, 3256, 3257, 3260,
      3261, 3262, 3263, 3264, 3265, 3266, 3267, 3268, 3270, 3271,
      3272, 3274, 3275, 3276, 3277, 3285, 3286, 3294, 3296, 3297,
      3298, 3299, 3302, 3303, 3304, 3305, 3306, 3307, 3308, 3309,
      3310, 3311, 3313, 3314, 3077, 3078, 3079, 3080, 3081, 3082,
      3083, 3084, 3086, 3087, 3088, 3090, 3091, 3092>>

\* The operator % of Go on integers: the remainder has the sign of a.
GoRem(a, b) == a - b * TruncDiv(a, b)

\* charCode - 32
FirstCharCode == 32

\* index := (charCode - 32) % len(characters)
IndexOfCharCode(charCode) == GoRem(charCode - FirstCharCode, Len(characters))

\* At most this many bytes in a session ID.
MaxIDLen == 2

\* The bytes after the first of a session ID: a newline, a hyphen, a letter.
TailBytes == {10, 45, 97}

\* The session IDs: every byte value comes first in some of them.
AnkyverseIDs ==
    {<<>>} \cup {<<b>> \o rest : b \in 0..255, rest \in SeqsUpTo(TailBytes, MaxIDLen - 1)}

InitTranslate ==
    /\ CoreIdle
    /\ ServerIdle
    /\ StatusIdle
    /\ AnkyIdle
    /\ PollIdle
    /\ ankyverseID \in AnkyverseIDs
    /\ ti = 0
    /\ encoded = <<>>
    /\ tret = "running"

notTranslateVars == <<coreVars, serverVars, statusVars, ankyVars, pollVars>>

\* One round of the loop: the character of the byte is written, or the
\* lookup characters[index] panics because index is out of range.
EncodeByte ==
    /\ tret = "running"
    /\ ti < Len(ankyverseID)
    /\ LET charCode == ankyverseID[ti + 1]
           index    == IndexOfCharCode(charCode)
       IN  IF index >= 0 /\ index < Len(characters)
           THEN /\ encoded' = Append(encoded, characters[index + 1])
                /\ ti' = ti + 1
                /\ UNCHANGED tret
           ELSE /\ tret' = "panic"
                /\ UNCHANGED <<ti, encoded>>
    /\ UNCHANGED ankyverseID
    /\ UNCHANGED notTranslateVars

\* return encoded.String()
ReturnEncoded ==
    /\ tret = "running"
    /\ ~(ti < Len(ankyverseID))
    /\ tret' = "returned"
    /\ UNCHANGED <<ankyverseID, ti, encoded>>
    /\ UNCHANGED notTranslateVars

NextTranslate ==
    \/ EncodeByte
    \/ ReturnEncoded

SpecTranslate == InitTranslate /\ [][NextTranslate]_vars

(***************************************************************************)
(* What the claims speak of, stated on the transcript itself.              *)
(***************************************************************************)

\* The positions of the newline bytes of the transcript.
NewlinesAt == {k \in 1..Len(content) : content[k] = "\n"}

\* The number of lines of the transcript: its newline bytes plus one.
NumLines == Cardinality(NewlinesAt) + 1

\* Line n (from 0) of the transcript: the bytes between its n-th and its
\* (n+1)-th newline byte.
NthLine(n) ==
    LET first == IF n = 0 THEN 0
                 ELSE CHOOSE k \in NewlinesAt :
                          Cardinality({j \in NewlinesAt : j < k}) = n - 1
        after == {k \in NewlinesAt : k > first}
        last  == IF after = {} THEN Len(content) + 1
                 ELSE CHOOSE k \in after : \A j \in after : k <= j
    IN  SubSeq(content, first + 1, last - 1)

WhiteSpace == {" ", "\t", "\n", "\r", "\f"}

\* t is l without its leading and trailing white space.
IsTrimOf(t, l) ==
    \E a \in 0..Len(l) :
        /\ \A k \in 1..a : l[k] \in WhiteSpace
        /\ \A k \in (a + Len(t) + 1)..Len(l) : l[k] \in WhiteSpace
        /\ a + Len(t) <= Len(l)
        /\ t = SubSeq(l, a + 1, a + Len(t))
        /\ t # <<>> => (t[1] \notin WhiteSpace /\ t[Len(t)] \notin WhiteSpace)

\* One step of the replay rules of the specification.
ReplayRule(buf, key) ==
    CASE key = KeyBackspace -> IF buf = <<>> THEN <<>> ELSE SubSeq(buf, 1, Len(buf) - 1)
      [] key = KeyEnter     -> buf \o <<"\n">>
      [] key = KeySpace     -> buf \o <<" ">>
      [] OTHER              -> buf \o key

\* The replay rules folded over a keystroke list, from the empty buffer.
RECURSIVE Replay(_)
Replay(ks) ==
    IF ks = <<>> THEN <<>>
    ELSE ReplayRule(Replay(SubSeq(ks, 1, Len(ks) - 1)), ks[Len(ks)].Key)

RECURSIVE SumDelays(_)
SumDelays(ks) == IF ks = <<>> THEN 0 ELSE ks[1].Delay + SumDelays(Tail(ks))

Returned == pc \notin {"parse", "loop"}

Accepted == Returned /\ ~ret.err

\* The loop has just appended a keystroke.
JustAppended == pc = "loop" /\ i > FirstKeyLine /\ keyStrokes # <<>>

LastKey == keyStrokes[Len(keyStrokes)]

(***************************************************************************)
(* Claims.                                                                 *)
(***************************************************************************)

\* C1: the text is the replay of the keystroke list - after every processed
\* line the buffer equals the fold of the replay rules over the keystrokes
\* appended so far, and the returned RawContent equals the fold over the
\* returned KeyStrokes.
C1_TextIsReplayOfKeystrokes ==
    /\ pc = "loop" => constructedText = Replay(keyStrokes)
    /\ Accepted => ret.session.RawContent = Replay(ret.session.KeyStrokes)

C1_Witness ==
    /\ Accepted
    /\ Len(ret.session.KeyStrokes) = 3
    /\ ret.session.KeyStrokes[1].Key = KeyBackspace
    /\ ret.session.KeyStrokes[3].Key = KeyBackspace
    /\ ret.session.RawContent = <<>>

\* C2: a transcript with fewer than 4 lines (newline bytes plus one) gets an
\* error and a nil session, and no header field is ever extracted from it.
C2_TooFewLinesFails ==
    NumLines < 4 =>
        /\ session = Nil
        /\ pc # "loop"
        /\ Returned => ret = [session |-> Nil, err |-> TRUE]

C2_Witness ==
    /\ Returned
    /\ NumLines = 3
    /\ ret.err
    /\ ret.session = Nil

\* C3: a transcript with at least 4 lines gets a session and no error,
\* whatever its lines from the fifth on: nothing is returned while lines
\* remain, and the parse returns only after the last line.
C3_NoKeystrokeLineAborts ==
    NumLines >= 4 =>
        /\ pc = "loop" => (ret = Nil /\ i <= NumLines)
        /\ Returned => /\ ~ret.err
                       /\ ret.session # Nil
                       /\ i = NumLines

C3_Witness ==
    /\ Accepted
    /\ NumLines = 6
    /\ NthLine(4) = LineNoSpace
    /\ NthLine(5) = LineBadDelay
    /\ ret.session.KeyStrokes = <<>>

\* C4: the returned TimeSpent is floor(total delay in ms / 1000) + 8.
C4_TimeSpentIsComputed ==
    Accepted =>
        ret.session.TimeSpent = (SumDelays(ret.session.KeyStrokes) \div 1000) + BaseDuration

\* C5: minting starts only for a session whose summed keystroke delays plus
\* the fixed offset reach 480 seconds.
C5_MintOnlyLongSessions ==
    minted => (SumDelays(ret.session.KeyStrokes) \div 1000) + BaseDuration >= 480

\* C6: the header fields are lines 0..3 of the untrimmed transcript, each
\* with its leading and trailing white space removed.
C6_HeaderIsTrimmedLines ==
    (NumLines >= 4 /\ pc # "parse") =>
        /\ session # Nil
        /\ IsTrimOf(session.UserID, NthLine(0))
        /\ IsTrimOf(session.SessionID, NthLine(1))
        /\ IsTrimOf(session.Prompt, NthLine(2))
        /\ IsTrimOf(session.Timestamp, NthLine(3))
        /\ Returned => /\ ret.session.UserID = session.UserID
                       /\ ret.session.SessionID = session.SessionID
                       /\ ret.session.Prompt = session.Prompt
                       /\ ret.session.Timestamp = session.Timestamp

\* A padded header, and after it a header moved down by a leading blank line.
C6_Witness ==
    /\ Accepted
    /\ NthLine(0) = PaddedUser
    /\ NthLine(2) = LineEmpty
    /\ ret.session.UserID = PlainUser
    /\ ret.session.SessionID = PlainSession
    /\ ret.session.Prompt = <<>>
    /\ ret.session.Timestamp = <<"t", " ", "1">>

C8_EndToEndExample ==
    (Accepted /\ content = Join(ExampleLines)) =>
        /\ ret.session.UserID = <<"u", "s", "e", "r", "1", "2", "3">>
        /\ ret.session.SessionID = <<"s", "e", "s", "s", "4", "5", "6">>
        /\ ret.session.Prompt = ExPrompt
        /\ ret.session.Timestamp = ExTimestamp
        /\ ret.session.KeyStrokes = << [Key |-> <<"H">>, Delay |-> 300],
                                       [Key |-> <<"i">>, Delay |-> 200],
                                       [Key |-> KeyEnter, Delay |-> 100],
                                       [Key |-> KeyBackspace, Delay |-> 100] >>
        /\ ret.session.RawContent = <<"H", "i">>

C8_Witness ==
    /\ Accepted
    /\ content = Join(ExampleLines)
    /\ Len(ret.session.KeyStrokes) = 4

\* C9: a line that starts with a space and has exactly two spaces has the key
\* " " and its trimmed self as delay string: when that parses, the step
\* appends exactly the keystroke {" ", delay in ms} and one space to the text;
\* when it does not, nothing is appended.
C9_SpaceKeystrokeLine ==
    [][(pc = "loop" /\ i < Len(lines) /\ lines[i + 1] # <<>>
          /\ lines[i + 1][1] = " "
          /\ Cardinality({k \in 1..Len(lines[i + 1]) : lines[i + 1][k] = " "}) = 2) =>
        LET line  == lines[i + 1]
            delay == ParseFloat(TrimSpace(line))
        IN  IF delay.err
            THEN keyStrokes' = keyStrokes /\ constructedText' = constructedText
            ELSE /\ keyStrokes' = keyStrokes \o <<[Key |-> <<" ">>, Delay |-> Millis(delay)]>>
                 /\ constructedText' = constructedText \o <<" ">>]_vars

\* The line of two spaces and "0.5", after the key "a".
C9_Witness ==
    /\ JustAppended
    /\ lines[i] = <<" ", " ", "0", ".", "5">>
    /\ LastKey = [Key |-> <<" ">>, Delay |-> 500]
    /\ constructedText = <<"a", " ">>

SpacesIn(l) == {k \in 1..Len(l) : l[k] = " "}

\* The line starts with a space and holds exactly two spaces.
MatchesSpaceRule(l) == l # <<>> /\ l[1] = " " /\ Cardinality(SpacesIn(l)) = 2

\* The position of the last space of a line that has one.
LastSpace(l) == CHOOSE k \in SpacesIn(l) : \A j \in SpacesIn(l) : j <= k

\* l without its leading and trailing white space.
TrimOf(l) ==
    CHOOSE t \in {SubSeq(l, a, b) : a \in 1..(Len(l) + 1), b \in 0..Len(l)} : IsTrimOf(t, l)

\* d is a decimal number: an optional sign, then digits with at most one
\* point among them, and at least one digit.
IsNumber(d) ==
    LET body == IF d # <<>> /\ d[1] \in {"+", "-"} THEN Tail(d) ELSE d
    IN  /\ \A k \in 1..Len(body) :
              body[k] \in {"0", "1", "2", "3", "4", "5", "6", "7", "8", "9", "."}
        /\ Cardinality({k \in 1..Len(body) : body[k] = "."}) <= 1
        /\ \E k \in 1..Len(body) : body[k] # "."

\* The key and the delay string of a line that has a space.
RuleKey(l) ==
    IF MatchesSpaceRule(l) THEN <<" ">> ELSE TrimOf(SubSeq(l, 1, LastSpace(l) - 1))

RuleDelayStr(l) ==
    IF MatchesSpaceRule(l) THEN TrimOf(l) ELSE TrimOf(SubSeq(l, LastSpace(l) + 1, Len(l)))

\* The line yields no keystroke: it is empty, has no space, or its delay
\* string is no number.
IsDropped(l) == l = <<>> \/ SpacesIn(l) = {} \/ ~IsNumber(RuleDelayStr(l))

\* The keystroke of a line that is not dropped.
RuleKeyStroke(l) == [Key |-> RuleKey(l), Delay |-> Millis(ParseFloat(RuleDelayStr(l)))]

\* The loop is at a line.
AtLine == pc = "loop" /\ i < Len(lines)

\* The step appends one keystroke to the list and leaves the rest of it.
AppendsOne ==
    /\ Len(keyStrokes') = Len(keyStrokes) + 1
    /\ SubSeq(keyStrokes', 1, Len(keyStrokes)) = keyStrokes

Abs(n) == IF n < 0 THEN 0 - n ELSE n

\* C11: a non-empty line that the space-keystroke rule does not match is
\* split at its last space - the key is the trimmed text before it, the delay
\* string the trimmed text after it - and a line without a space yields no
\* keystroke.
C11_SplitAtLastSpace ==
    [][(AtLine /\ lines[i + 1] # <<>> /\ ~MatchesSpaceRule(lines[i + 1])) =>
        LET l == lines[i + 1]
        IN  IF SpacesIn(l) = {} THEN keyStrokes' = keyStrokes
            ELSE LET key == TrimOf(SubSeq(l, 1, LastSpace(l) - 1))
                     d   == TrimOf(SubSeq(l, LastSpace(l) + 1, Len(l)))
                 IN  IF IsNumber(d)
                     THEN /\ AppendsOne
                          /\ keyStrokes'[Len(keyStrokes')] =
                                [Key |-> key, Delay |-> Millis(ParseFloat(d))]
                     ELSE keyStrokes' = keyStrokes]_vars

\* The key "a b", which holds a space itself.
C11_Witness ==
    /\ JustAppended
    /\ lines[i] = <<"a", " ", "b", " ", "1", ".", "2", "5">>
    /\ LastKey = [Key |-> <<"a", " ", "b">>, Delay |-> 1250]

C14_DelaysNotNegative ==
    Accepted =>
        \A k \in 1..Len(ret.session.KeyStrokes) : ret.session.KeyStrokes[k].Delay >= 0

\* C15: no returned keystroke has the empty key.
C15_KeysNotEmpty ==
    Accepted =>
        \A k \in 1..Len(ret.session.KeyStrokes) : ret.session.KeyStrokes[k].Key # <<>>

\* C16: the keystroke list holds, in the order of their lines, exactly one
\* keystroke for each line processed so far that is not dropped, and never
\* more keystrokes than the transcript has lines after its header.
C16_OrderPreserved ==
    (NumLines >= 4 /\ pc # "parse") =>
        LET acc    == {j \in FirstKeyLine..(i - 1) : ~IsDropped(NthLine(j))}
            rank(j) == Cardinality({m \in acc : m <= j})
        IN  /\ Len(keyStrokes) = Cardinality(acc)
            /\ \A j \in acc : keyStrokes[rank(j)] = RuleKeyStroke(NthLine(j))
            /\ Len(keyStrokes) <= NumLines - 4
            /\ Returned => (i = NumLines /\ ret.session.KeyStrokes = keyStrokes)

C16_Witness ==
    /\ Accepted
    /\ NumLines = 7
    /\ NthLine(4) = LineA
    /\ NthLine(5) = LineB
    /\ NthLine(6) = LineBackspace
    /\ ret.session.KeyStrokes = << [Key |-> <<"a">>, Delay |-> 100],
                                   [Key |-> <<"b">>, Delay |-> 200],
                                   [Key |-> KeyBackspace, Delay |-> 100] >>

\* C19: after the key of one non-ASCII character (here the two bytes of
\* U+00E9) and a Backspace, the text is what it was before the key.
C19_BackspaceRemovesCharacter ==
    LET n == Len(keyStrokes)
    IN  (pc = "loop" /\ n >= 2
            /\ keyStrokes[n - 1].Key = <<"xC3", "xA9">>
            /\ keyStrokes[n].Key = KeyBackspace)
        => constructedText = Replay(SubSeq(keyStrokes, 1, n - 2))

\* C20: a line that starts with one space, holds exactly two spaces and has
\* a key after the first and a delay after the second, such as " a 0.5", is
\* taken by the space-keystroke rule: its delay string is the line without
\* the leading space, and the line changes neither the keystroke list, nor
\* the text, nor the total.
C20_MisclassifiedKeyLineDropped ==
    [][(AtLine /\ MatchesSpaceRule(lines[i + 1])
          /\ lines[i + 1][2] # " "
          /\ lines[i + 1][Len(lines[i + 1])] # " ") =>
        /\ KeyOf(lines[i + 1]) = <<" ">>
        /\ DelayStrOf(lines[i + 1]) = Tail(lines[i + 1])
        /\ keyStrokes' = keyStrokes
        /\ constructedText' = constructedText
        /\ totalMilliseconds' = totalMilliseconds
        /\ i' = i + 1]_vars

\* " a 0.5" after "a 0.1": still one keystroke and the text "a".
C20_Witness ==
    /\ pc = "loop"
    /\ i = FirstKeyLine + 2
    /\ lines[i] = <<" ", "a", " ", "0", ".", "5">>
    /\ keyStrokes = <<[Key |-> <<"a">>, Delay |-> 100]>>
    /\ constructedText = <<"a">>

\* The lines of the transcript, and the transcript without the keystroke
\* lines that are dropped.
LinesOfContent == [n \in 1..NumLines |-> NthLine(n - 1)]

WithoutDropped ==
    LET keep(l) == ~IsDropped(l)
    IN  Join(SubSeq(LinesOfContent, 1, 4)
             \o SelectSeq(SubSeq(LinesOfContent, 5, NumLines), keep))

\* C12: a dropped line (empty, without a space, or with a delay string that
\* is no number) changes neither the keystroke list, nor the text, nor the
\* total, and the parse goes on with the next line; the parse gives the
\* keystrokes, text and total that parsing the transcript without its
\* dropped lines gives.
C12_DroppedLinesLeaveNoTrace ==
    /\ [][(AtLine /\ IsDropped(lines[i + 1])) =>
            /\ keyStrokes' = keyStrokes
            /\ constructedText' = constructedText
            /\ totalMilliseconds' = totalMilliseconds
            /\ i' = i + 1
            /\ pc' = "loop"]_vars
    /\ [](Accepted =>
            LET ls == Split(WithoutDropped)
                r  == ParseLoop(ls, FirstKeyLine, <<>>, <<>>, 0)
            IN  /\ Len(ls) = 4 + Len(ret.session.KeyStrokes)
                /\ ret.session.KeyStrokes = r.KeyStrokes
                /\ ret.session.RawContent = r.RawContent
                /\ totalMilliseconds = r.Total)

\* "x notanumber", then "a 0.1": the second line is parsed as if alone.
C12_Witness ==
    /\ Accepted
    /\ NumLines = 6
    /\ NthLine(4) = LineBadDelay
    /\ NthLine(5) = LineA
    /\ ret.session.KeyStrokes = <<[Key |-> <<"a">>, Delay |-> 100]>>
    /\ ret.session.RawContent = <<"a">>
    /\ totalMilliseconds = 100

\* C17: two calls with the same transcript return the same result: the same
\* error, or the same header fields, keystroke list, text and TimeSpent.
C17_SameInputSameResult ==
    \A p, q \in Invocations :
        (cpc[p] = "returned" /\ cpc[q] = "returned" /\ cin[p] = cin[q]) => cret[p] = cret[q]

\* Two calls on the transcript with the line "a 0.1" have both returned.
C17_Witness ==
    /\ cin[1] = Join(PlainHeader \o <<LineA>>)
    /\ cin[2] = cin[1]
    /\ cpc[1] = "returned"
    /\ cpc[2] = "returned"
    /\ cret[1].session.RawContent = <<"a">>

LinesOf(c) == 1 + Cardinality({k \in 1..Len(c) : c[k] = "\n"})

\* The last call was given a transcript the parse accepts.
LastParsed == lastCall.op # "none" /\ LinesOf(lastCall.content) >= 4

\* C21: for every transcript, the gate of handleFramesV2SubmitWritingSession
\* (TimeSpent >= 480), the gate of handleProcessWritingConversation (8000 +
\* the summed delays > 480000) and IsValidAnky (TimeSpent >= 480) decide alike.
C21_GatesAgree ==
    LastParsed =>
        LET parsed       == ParseSession(lastCall.content).session
            submitGate   == parsed.TimeSpent >= 480
            conversation == 8000 + SumDelays(parsed.KeyStrokes) > 480000
            validAnky    == IsValidAnky(PtrTo(parsed.TimeSpent))
        IN  /\ submitGate = conversation
            /\ validAnky = conversation
            /\ (lastCall.op = "submit" /\ lastCall.svcCalled) => lastCall.minted = conversation
            /\ lastCall.op = "conversation" => lastCall.creation = submitGate

\* C22: the minting goroutine is never started on a service whose
\* construction failed.
C22_NoMintOnFailedService == minted => ~svcErr

\* C23: a transcript of fewer than 4 lines changes no directory and no file,
\* whether it is given to SaveWritingSessionLocally or posted to
\* handleFramesV2SubmitWritingSession, and the handler answers with the parse
\* error without saving, creating the service, minting or storing a prompt.
C23_ShortTranscriptLeavesNoTrace ==
    (lastCall.op \in {"save", "submit"} /\ LinesOf(lastCall.content) < 4) =>
        /\ disk = before
        /\ lastCall.err
        /\ ~lastCall.saveCalled
        /\ ~lastCall.svcCalled
        /\ ~lastCall.minted
        /\ ~lastCall.prompted
        /\ lastCall.op = "submit" => lastCall.response = "error parsing writing session"

\* A three-line transcript was given to SaveWritingSessionLocally when files
\* of earlier calls were there.
C23_Witness ==
    /\ lastCall.op = "save"
    /\ LinesOf(lastCall.content) = 3
    /\ lastCall.err
    /\ before.files # <<>>
    /\ disk = before

\* C25: when SaveWritingSessionLocally returns an error, no file was created
\* or modified by the call.
C25_FailedSaveChangesNoFile ==
    (lastCall.op = "save" /\ lastCall.err) => disk.files = before.files

\* The lines of a user's index file, in order; none when there is no file.
IndexLines(d, u) ==
    LET path == SessionsPath(UserDir(u), u)
    IN  IF ~Exists(d, path) THEN <<>>
        ELSE LET pieces == Split(d.files[path])
             IN  SubSeq(pieces, 1, Len(pieces) - 1)

\* The path of the session file of a session ID of a user.
SessionFileOf(u, s) == SessionPath(UserDir(u), s)

\* Every session ID listed in an index has its session file.
ListedHaveFiles(d) ==
    \A u \in ServerUsers :
        \A k \in 1..Len(IndexLines(d, u)) : Exists(d, SessionFileOf(u, IndexLines(d, u)[k]))

\* The session files of the listed session IDs, and the indexes, are in d2
\* as they were in d1.
ListedKept(d1, d2) ==
    \A u \in ServerUsers :
        /\ IndexLines(d2, u) = IndexLines(d1, u)
        /\ \A k \in 1..Len(IndexLines(d1, u)) :
              LET path == SessionFileOf(u, IndexLines(d1, u)[k])
              IN  Exists(d2, path) /\ d2.files[path] = d1.files[path]

\* The call saved its transcript: SaveWritingSessionLocally returned no error.
SaveSucceeded(call) ==
    \/ call.op = "save" /\ ~call.err
    \/ call.op = "submit" /\ call.saveCalled /\ call.response # "error saving writing session"

\* C24: every listed session ID has a session file; a successful save appends
\* its session ID as one line to the index of its user and leaves the
\* transcript in the session file; any other call leaves the indexes and the
\* session files of the listed IDs as they were, so that a listed file holds
\* the transcript most recently saved under its ID.
C24_IndexMatchesSessionFiles ==
    /\ [](ListedHaveFiles(disk))
    /\ [][IF SaveSucceeded(lastCall')
          THEN LET ls == Split(lastCall'.content)
                   u  == TrimSpace(ls[1])
                   s  == TrimSpace(ls[2])
               IN  /\ IndexLines(disk', u) = Append(IndexLines(disk, u), s)
                   /\ disk'.files[SessionFileOf(u, s)] = lastCall'.content
                   /\ \A v \in ServerUsers \ {u} : IndexLines(disk', v) = IndexLines(disk, v)
          ELSE ListedKept(disk, disk')]_vars

\* The parts of C24 that do not depend on what a failed call leaves behind.
C24_ListedAndAppended ==
    /\ [](ListedHaveFiles(disk))
    /\ [][/\ SaveSucceeded(lastCall') =>
              LET ls == Split(lastCall'.content)
                  u  == TrimSpace(ls[1])
                  s  == TrimSpace(ls[2])
              IN  /\ IndexLines(disk', u) = Append(IndexLines(disk, u), s)
                  /\ disk'.files[SessionFileOf(u, s)] = lastCall'.content
                  /\ \A v \in ServerUsers \ {u} : IndexLines(disk', v) = IndexLines(disk, v)
          /\ ~SaveSucceeded(lastCall') =>
              \A u \in ServerUsers : IndexLines(disk', u) = IndexLines(disk, u)]_vars

\* C26: after SetAnkyStatus, IsAnky is true exactly when TimeSpent is not nil
\* and at least 480; Status is "pending_processing" exactly when IsAnky is
\* true and "completed" otherwise; every other field is as it was.
C26_SetAnkyStatus ==
    wsCalled =>
        /\ ws.IsAnky <=> (Len(wsBefore.TimeSpent) = 1 /\ wsBefore.TimeSpent[1] >= 480)
        /\ ws.Status = "pending_processing" <=> ws.IsAnky
        /\ ws.Status = "completed" <=> ~ws.IsAnky
        /\ ws.TimeSpent = wsBefore.TimeSpent
        /\ ws.Writing = wsBefore.Writing
        /\ ws.WordsWritten = wsBefore.WordsWritten

\* SetAnkyStatus ran on a session with a nil TimeSpent that was marked as an
\* Anky awaiting processing: both fields were reset.
C26_Witness ==
    /\ wsCalled
    /\ wsBefore.TimeSpent = <<>>
    /\ wsBefore.IsAnky
    /\ wsBefore.Status = "pending_processing"
    /\ ~ws.IsAnky
    /\ ws.Status = "completed"

\* The statuses of an Anky in creation, in their order, before the last one.
StatusOrder ==
    <<"starting_processing", "reflection_completed", "going_to_generate_image",
      "generating_image", "image_generated", "uploading_image", "image_uploaded",
      "casting_to_farcaster">>

FinalStatuses == {"completed", "pending_to_cast"}

\* b is the status that follows a in the order; "" is the status before the first.
FollowsInOrder(a, b) ==
    \/ a = "" /\ b = StatusOrder[1]
    \/ \E k \in 1..(Len(StatusOrder) - 1) : a = StatusOrder[k] /\ b = StatusOrder[k + 1]
    \/ a = StatusOrder[Len(StatusOrder)] /\ b \in FinalStatuses

\* The statuses handed to the store so far follow the order from its start.
IssuedInOrder ==
    /\ Len(issued) <= Len(StatusOrder) + 1
    /\ \A k \in 1..Len(issued) :
          IF k <= Len(StatusOrder) THEN issued[k] = StatusOrder[k]
          ELSE issued[k] \in FinalStatuses

\* C27: the stored status of the Anky moves only to the next status of the
\* fixed order, never skipping one or going back; "completed" is stored only
\* after the cast was published and its hash set; when a step fails the
\* function returns, leaving the last stored status, and stores nothing more.
C27_StatusStoredInOrder ==
    /\ [](IssuedInOrder)
    /\ [](row = "completed" => anky.CastHash # "")
    /\ [](aret # "panic")
    /\ [][row' # row => FollowsInOrder(row, row')]_vars
    /\ [][aret \notin {"none", "nil"} => (row' = row /\ issued' = issued)]_vars

\* The part of C27 about the order of the calls: the statuses are handed to
\* the store in the fixed order, "completed" only with the cast hash set, and
\* after a failure nothing more is handed over.
C27_StatusIssuedInOrder ==
    /\ [](IssuedInOrder)
    /\ []((anky.Status = "completed" \/ row = "completed") => anky.CastHash # "")
    /\ [](aret \notin {"none", "nil", "panic"} =>
            (issued # <<>> /\ issued[Len(issued)] \notin FinalStatuses))
    /\ [][aret # "none" => (row' = row /\ issued' = issued)]_vars

\* C28: pollImageStatus returns ("completed", nil) only on a check that
\* reported "completed", returns an error on a check that reported "failed"
\* or failed itself, and after any other answer checks again; so it returns
\* only when the service has ended or a check failed, and once the service
\* has ended it does return.
C28_PollReturns ==
    /\ []((ppc = "done" /\ pret.err = "nil") =>
            (pret.status = "completed" /\ svc = "completed"))
    /\ [](ppc = "done" => (svc \in {"completed", "failed"} \/ pret.err = "check failed"))
    /\ [][(ppc = "decide" /\ ppc' # "decide") =>
            IF pstatus.err # "nil"
            THEN ppc' = "done" /\ pret'.status = "" /\ pret'.err = pstatus.err
            ELSE IF pstatus.status = "completed"
            THEN ppc' = "done" /\ pret' = [status |-> "completed", err |-> "nil"]
            ELSE IF pstatus.status = "failed"
            THEN ppc' = "done" /\ pret'.err # "nil"
            ELSE ppc' = "check" /\ pret' = pret]_vars
    /\ (svc \in {"completed", "failed"}) ~> (ppc = "done")

\* The poll returned ("completed", nil) after it had slept and checked again.
C28_Witness ==
    /\ ppc = "done"
    /\ pret = [status |-> "completed", err |-> "nil"]
    /\ polls >= 3

\* C29: for every session ID, TranslateToTheAnkyverse returns one character
\* for each byte: the index computed for a byte lies in 0..97 whatever the
\* byte, so the lookup is never out of range.
C29_OneCharacterPerByte ==
    /\ tret # "panic"
    /\ tret = "returned" =>
          /\ Len(encoded) = Len(ankyverseID)
          /\ \A k \in 1..Len(ankyverseID) :
                IndexOfCharCode(ankyverseID[k]) \in 0..97

\* The part of C29 that holds: a session ID whose bytes are all 32 or more is
\* translated byte by byte.
C29_PrintableBytesTranslated ==
    (\A k \in 1..Len(ankyverseID) : ankyverseID[k] >= 32) =>
        /\ tret # "panic"
        /\ tret = "returned" => Len(encoded) = Len(ankyverseID)
        /\ \A k \in 1..Len(encoded) :
              encoded[k] = characters[((ankyverseID[k] - 32) % 98) + 1]

====
